---- MODULE Spec2Model ----
(***************************************************************************)
(* Resource-lifecycle polling of the Amazon Forecast sample notebooks:     *)
(*   - wait_till_delete (workshops/immersion_day/notebooks/Cleanup.ipynb), *)
(*     the delete-and-confirm loop, alone against an arbitrary callback    *)
(*     (SpecWait) and inside the Cleanup notebook's cells against the      *)
(*     remote service (SpecCleanup);                                       *)
(*   - the import-job status poll loop of the what-if notebook, alone      *)
(*     against an arbitrary status source (SpecPoll) and inside the        *)
(*     notebook's creation cells (SpecWhatIf).                             *)
(***************************************************************************)
EXTENDS Integers, Sequences, FiniteSets, TLC

VARIABLES
    \* ---- frame of wait_till_delete ----
    wtd_pc,        \* "idle" | "loop" | "call" | "sleep" | "returned" | "timeout" | "error"
    elapsed_time,  \* the local elapsed_time
    check_time,    \* parameter check_time
    timeout,       \* parameter timeout: None or Some(t)
    trace,         \* outcome of every callback invocation of this call, in order
    sleeps,        \* number of time.sleep(check_time) calls of this call
    raised,        \* the exception that left wait_till_delete ("" when none)
    \* ---- frame of the status poll loop ----
    poll_pc,       \* "idle" | "describe" | "sleep" | "done" | "failed" | "error"
    status,        \* the local status ("" before the first describe call)
    status_calls,  \* number of describe calls of this loop
    poll_sleeps,   \* number of time.sleep(10) calls of this loop
    seen,          \* the statuses the describe calls of this loop returned, in order
    \* ---- the notebook run and the remote service ----
    cell,          \* index of the notebook step being run
    flow,          \* "running" | "aborted" | "finished"
    target,        \* the resource the running wait is about ("" when none)
    remote,        \* the remote service: resource -> status
    arn,           \* the notebook's identifier variables: name -> identifier or Unset
    observed,      \* resource -> last status a poll of the notebook observed
    callLog        \* every remote create / update / delete call issued, in order

wtdVars  == <<wtd_pc, elapsed_time, check_time, timeout, trace, sleeps, raised>>
pollVars == <<poll_pc, status, status_calls, poll_sleeps, seen>>
runVars  == <<cell, flow, target, remote, arn, observed, callLog>>
vars     == <<wtdVars, pollVars, runVars>>

(***************************************************************************)
(* Bounds of the model.                                                    *)
(***************************************************************************)
MaxCalls   == 4    \* callback invocations of one wait_till_delete call
MaxTimeout == 4    \* largest timeout argument tried
MaxPolls   == 4    \* describe calls of one status poll loop
MaxRunCalls == 3   \* callback invocations of one wait_till_delete call in a notebook run
MaxRunPolls == 3   \* describe calls of one wait in a notebook run

(***************************************************************************)
(* Program constants.                                                      *)
(***************************************************************************)
DefaultCheckTime == 5     \* check_time = 5

None    == <<>>           \* timeout = None
Some(t) == <<t>>

Last(s) == s[Len(s)]

\* What one callback invocation (a re-issued delete call) can do: return
\* normally, or raise a ClientError with an error code, or raise something
\* that is not a ClientError (a transport error).
OK         == "ok"
NotFound   == "ResourceNotFoundException"
InUse      == "ResourceInUseException"
Transport  == "EndpointConnectionError"
Outcomes   == {OK, NotFound, InUse, Transport}
OtherErrors == {InUse, Transport}

CheckTimes == {0, 1, 2, DefaultCheckTime}
Timeouts   == {None} \cup {Some(t) : t \in (0 - 1)..MaxTimeout}

(***************************************************************************)
(* wait_till_delete(callback, check_time = 5, timeout = None)              *)
(***************************************************************************)

\* The call: elapsed_time = 0.
WtdEnter(ct, to) ==
    /\ wtd_pc = "idle"
    /\ wtd_pc' = "loop"
    /\ elapsed_time' = 0
    /\ check_time' = ct
    /\ timeout' = to
    /\ trace' = <<>>
    /\ sleeps' = 0
    /\ raised' = ""

\* LoopCondition with the bound included (<= for <).
LoopCondition_Inclusive == timeout = None \/ elapsed_time <= timeout[1]

\* while timeout is None or elapsed_time < timeout
LoopCondition == timeout = None \/ elapsed_time < timeout[1]

\* WtdLoopTest entering the loop body once before the first test of the
\* condition (a do-while loop).
WtdLoopTest_CallFirst ==
    /\ wtd_pc = "loop"
    /\ IF LoopCondition \/ Len(trace) = 0
         THEN /\ wtd_pc' = "call"
              /\ raised' = raised
         ELSE /\ wtd_pc' = "timeout"
              /\ raised' = "TimeoutError"
    /\ UNCHANGED <<elapsed_time, check_time, timeout, trace, sleeps>>

\* One evaluation of the loop condition; when it is false the loop is left
\* and TimeoutError is raised.
WtdLoopTest ==
    /\ wtd_pc = "loop"
    /\ IF LoopCondition
         THEN /\ wtd_pc' = "call"
              /\ raised' = raised
         ELSE /\ wtd_pc' = "timeout"
              /\ raised' = "TimeoutError"
    /\ UNCHANGED <<elapsed_time, check_time, timeout, trace, sleeps>>

\* AfterCallback without the 'not found' test: every outcome but an error
\* of another kind goes on to the sleep.
AfterCallback_RetryOnNotFound(o) ==
    IF o \in {OK, NotFound} THEN "sleep" ELSE "error"

\* AfterCallback taking an accepted delete for the confirmation.
AfterCallback_ReturnOnAccept(o) ==
    IF o \in {OK, NotFound} THEN "returned" ELSE "error"

\* AfterCallback retrying a delete the service rejected as 'in use'.
AfterCallback_RetryOnInUse(o) ==
    IF o \in {OK, InUse} THEN "sleep"
    ELSE IF o = NotFound THEN "returned"
    ELSE "error"

\* AfterCallback with 'except: pass' for the errors of another kind.
AfterCallback_Swallow(o) ==
    IF o = NotFound THEN "returned" ELSE "sleep"

\* Where the try/except leaves the function after a callback outcome o.
AfterCallback(o) ==
    IF o = OK THEN "sleep"
    ELSE IF o = NotFound THEN "returned"
    ELSE "error"

\* WtdCallback counting one second spent inside the callback.
WtdCallback_TimesCallback(o) ==
    /\ wtd_pc = "call"
    /\ Len(trace) < MaxCalls
    /\ trace' = Append(trace, o)
    /\ wtd_pc' = AfterCallback(o)
    /\ raised' = IF AfterCallback(o) = "error" THEN o ELSE raised
    /\ elapsed_time' = elapsed_time + 1
    /\ UNCHANGED <<check_time, timeout, sleeps>>

\* out = callback() with its except clause.
WtdCallback(o) ==
    /\ wtd_pc = "call"
    /\ Len(trace) < MaxCalls
    /\ trace' = Append(trace, o)
    /\ wtd_pc' = AfterCallback(o)
    /\ raised' = IF AfterCallback(o) = "error" THEN o ELSE raised
    /\ UNCHANGED <<elapsed_time, check_time, timeout, sleeps>>

\* time.sleep(check_time); elapsed_time += check_time
WtdSleep ==
    /\ wtd_pc = "sleep"
    /\ sleeps' = sleeps + 1
    /\ elapsed_time' = elapsed_time + check_time
    /\ wtd_pc' = "loop"
    /\ UNCHANGED <<check_time, timeout, trace, raised>>

(***************************************************************************)
(* SpecWait: one call of wait_till_delete with any arguments, against a    *)
(* callback that may do anything on each invocation.                       *)
(***************************************************************************)
IdleWtd ==
    /\ wtd_pc = "idle"
    /\ elapsed_time = 0
    /\ check_time = DefaultCheckTime
    /\ timeout = None
    /\ trace = <<>>
    /\ sleeps = 0
    /\ raised = ""

IdlePoll ==
    /\ poll_pc = "idle"
    /\ status = ""
    /\ status_calls = 0
    /\ poll_sleeps = 0
    /\ seen = <<>>

IdleRun ==
    /\ cell = 0
    /\ flow = "running"
    /\ target = ""
    /\ remote = <<>>
    /\ arn = <<>>
    /\ observed = <<>>
    /\ callLog = <<>>

InitWait == IdleWtd /\ IdlePoll /\ IdleRun

WaitCall ==
    /\ \E ct \in CheckTimes, to \in Timeouts : WtdEnter(ct, to)
    /\ UNCHANGED <<pollVars, runVars>>

WaitLoopTest == WtdLoopTest /\ UNCHANGED <<pollVars, runVars>>

WaitCallback ==
    /\ \E o \in Outcomes : WtdCallback(o)
    /\ UNCHANGED <<pollVars, runVars>>

WaitSleep == WtdSleep /\ UNCHANGED <<pollVars, runVars>>

NextWait == WaitCall \/ WaitLoopTest \/ WaitCallback \/ WaitSleep

SpecWait == InitWait /\ [][NextWait]_vars

(***************************************************************************)
(* The import-job status poll loop of the what-if notebook:                *)
(*     while True:                                                         *)
(*         status = forecast.describe_dataset_import_job(...)['Status']    *)
(*         status_indicator.update(status)                                 *)
(*         if status in ('ACTIVE', 'CREATE_FAILED'): break                 *)
(*         time.sleep(10)                                                  *)
(*     status_indicator.end()                                              *)
(***************************************************************************)
Active       == "ACTIVE"
CreateFailed == "CREATE_FAILED"
InProgress   == "CREATE_IN_PROGRESS"
Pending      == "CREATE_PENDING"
Stopped      == "CREATE_STOPPED"
Statuses     == {Pending, InProgress, Active, CreateFailed, Stopped}

\* status in ('ACTIVE', 'CREATE_FAILED')
TerminalStatuses == {Active, CreateFailed}

\* status_indicator = util.StatusIndicator(); while True:
PollEnter ==
    /\ poll_pc = "idle"
    /\ poll_pc' = "describe"
    /\ status' = ""
    /\ status_calls' = 0
    /\ poll_sleeps' = 0
    /\ seen' = <<>>

\* AfterStatus breaking on CREATE_FAILED only.
AfterStatus_FailedOnly(s) ==
    IF s = CreateFailed THEN "done" ELSE "sleep"

\* AfterStatus breaking on ACTIVE only.
AfterStatus_ActiveOnly(s) ==
    IF s = Active THEN "done" ELSE "sleep"

\* AfterStatus breaking on CREATE_STOPPED too.
AfterStatus_StopOnStopped(s) ==
    IF s \in TerminalStatuses \cup {Stopped} THEN "done" ELSE "sleep"

\* if status in ('ACTIVE', 'CREATE_FAILED'): break, and then
\* status_indicator.end(): the cell ends normally on either status.
AfterStatus(s) ==
    IF s \in TerminalStatuses THEN "done" ELSE "sleep"

\* One describe call that answers status s, the update of the indicator and
\* the test of the status; next is where the test leads.
PollDescribe(s, next) ==
    /\ poll_pc = "describe"
    /\ status_calls < MaxPolls
    /\ status_calls' = status_calls + 1
    /\ status' = s
    /\ seen' = Append(seen, s)
    /\ poll_pc' = next
    /\ UNCHANGED poll_sleeps

\* One describe call that raises: nothing catches it, the cell ends with it.
PollDescribeRaises ==
    /\ poll_pc = "describe"
    /\ status_calls < MaxPolls
    /\ status_calls' = status_calls + 1
    /\ poll_pc' = "error"
    /\ UNCHANGED <<status, seen, poll_sleeps>>

\* The length of one sleep of the poll loop, in seconds.
PollInterval == 10

\* Overall timeouts a caller could wish for, in seconds.
PollTimeouts == {0, PollInterval, 2 * PollInterval}

\* The time the loop has slept so far.
PollElapsed == poll_sleeps * PollInterval

\* PollSleep giving up once the loop has slept for more than 20 seconds.
PollSleep_GivesUp ==
    /\ poll_pc = "sleep"
    /\ poll_sleeps' = poll_sleeps + 1
    /\ poll_pc' = IF (poll_sleeps + 1) * PollInterval > 2 * PollInterval
                    THEN "timed_out" ELSE "describe"
    /\ UNCHANGED <<status, status_calls, seen>>

\* time.sleep(10)
PollSleep ==
    /\ poll_pc = "sleep"
    /\ poll_sleeps' = poll_sleeps + 1
    /\ poll_pc' = "describe"
    /\ UNCHANGED <<status, status_calls, seen>>

(***************************************************************************)
(* SpecPoll: one run of the poll loop against a status source that may     *)
(* answer anything on each call.                                           *)
(***************************************************************************)
InitPoll == IdleWtd /\ IdlePoll /\ IdleRun

PollStart == PollEnter /\ UNCHANGED <<wtdVars, runVars>>

PollStatus ==
    /\ \E s \in Statuses : PollDescribe(s, AfterStatus(s))
    /\ UNCHANGED <<wtdVars, runVars>>

PollRaise == PollDescribeRaises /\ UNCHANGED <<wtdVars, runVars>>

PollWait == PollSleep /\ UNCHANGED <<wtdVars, runVars>>

NextPoll == PollStart \/ PollStatus \/ PollRaise \/ PollWait

SpecPoll == InitPoll /\ [][NextPoll]_vars

(***************************************************************************)
(* The remote service, as far as the notebooks rely on it: a delete call   *)
(* is accepted (the resource goes towards deletion), or answered 'not      *)
(* found' (already gone) or 'in use' (a dependent resource still exists);  *)
(* an accepted deletion completes on the far end at some later time.       *)
(***************************************************************************)
Deleting == "DELETE_PENDING"
Gone     == "NONE"
Unset    == "unset"

\* The resources of rs that depend on r under the edges deps (child -> parent).
Dependents(deps, r) == {d \in DOMAIN deps : deps[d] = r}

\* The answer of the service to a delete call for r.
DeleteAnswer(deps, r) ==
    IF remote[r] = Gone THEN NotFound
    ELSE IF \E d \in Dependents(deps, r) : remote[d] # Gone THEN InUse
    ELSE OK

\* The state of the service after that delete call.
AfterDelete(deps, r) ==
    IF DeleteAnswer(deps, r) = OK THEN [remote EXCEPT ![r] = Deleting] ELSE remote

\* The far end completes an accepted deletion.
RemoteFinishDelete(r) ==
    /\ remote[r] = Deleting
    /\ remote' = [remote EXCEPT ![r] = Gone]

(***************************************************************************)
(* The Cleanup notebook: its identifier variables (restored by %store -r)  *)
(* and its cells, one step per delete call or wait_till_delete call.       *)
(***************************************************************************)
CleanupExports    == {"deeparp_export_forecast_arn", "arima_export_forecast_arn",
                      "prophet_export_forecast_arn"}
CleanupForecasts  == {"prophet_forecast_arn", "arima_forecast_arn", "deeparp_forecast_arn"}
CleanupPredictors == {"arima_arn", "prophet_arn", "deeparp_arn"}
CleanupResources  ==
    CleanupExports \cup CleanupForecasts \cup CleanupPredictors
        \cup {"ds_import_job_arn", "target_datasetArn", "datasetGroupArn"}

\* What each resource of notebooks 1 - 3 was created from.
CleanupDependsOn ==
    [r \in CleanupResources \ {"datasetGroupArn"} |->
        CASE r = "deeparp_export_forecast_arn" -> "deeparp_forecast_arn"
          [] r = "arima_export_forecast_arn"   -> "arima_forecast_arn"
          [] r = "prophet_export_forecast_arn" -> "prophet_forecast_arn"
          [] r = "deeparp_forecast_arn"        -> "deeparp_arn"
          [] r = "arima_forecast_arn"          -> "arima_arn"
          [] r = "prophet_forecast_arn"        -> "prophet_arn"
          [] r = "ds_import_job_arn"           -> "target_datasetArn"
          [] OTHER                             -> "datasetGroupArn"]

Step(op, v, confirm) == [op |-> op, var |-> v, confirm |-> confirm]

\* CleanupProgram with the delete call of the dataset group not wrapped in
\* wait_till_delete.
CleanupProgram_GroupUnconfirmed ==
    << Step("delete_forecast_export_job", "deeparp_export_forecast_arn", FALSE),
       Step("delete_forecast_export_job", "arima_export_forecast_arn", FALSE),
       Step("delete_forecast_export_job", "prophet_export_forecast_arn", FALSE),
       Step("delete_forecast", "prophet_forecast_arn", TRUE),
       Step("delete_forecast", "arima_forecast_arn", TRUE),
       Step("delete_forecast", "deeparp_forecast_arn", TRUE),
       Step("delete_predictor", "arima_arn", TRUE),
       Step("delete_predictor", "prophet_arn", TRUE),
       Step("delete_predictor", "deeparp_arn", TRUE),
       Step("delete_dataset_import_job", "ds_import_job_arn", TRUE),
       Step("delete_dataset", "target_datasetArn", TRUE),
       Step("delete_dataset_group", "datasetGroupArn", FALSE) >>

\* The delete cells in notebook order; confirm says whether the delete call
\* is wrapped in wait_till_delete. The read-only list_forecast_export_jobs()
\* call, whose result is overwritten at once, and the S3 cell are left out.
CleanupProgram ==
    << Step("delete_forecast_export_job", "deeparp_export_forecast_arn", FALSE),
       Step("delete_forecast_export_job", "arima_export_forecast_arn", FALSE),
       Step("delete_forecast_export_job", "prophet_export_forecast_arn", FALSE),
       Step("delete_forecast", "prophet_forecast_arn", TRUE),
       Step("delete_forecast", "arima_forecast_arn", TRUE),
       Step("delete_forecast", "deeparp_forecast_arn", TRUE),
       Step("delete_predictor", "arima_arn", TRUE),
       Step("delete_predictor", "prophet_arn", TRUE),
       Step("delete_predictor", "deeparp_arn", TRUE),
       Step("delete_dataset_import_job", "ds_import_job_arn", TRUE),
       Step("delete_dataset", "target_datasetArn", TRUE),
       Step("delete_dataset_group", "datasetGroupArn", TRUE) >>

\* The record of one delete call: the operation, the identifier passed, the
\* answer, and the dependents of the resource that were not gone at the call.
DeleteCall(deps, op, r) ==
    [op |-> op, id |-> r, answer |-> DeleteAnswer(deps, r),
     blockers |-> {d \in Dependents(deps, r) : remote[d] # Gone}]

\* The next cell; the run is finished after the last one.
Advance(program) ==
    /\ cell' = cell + 1
    /\ flow' = IF cell + 1 > Len(program) THEN "finished" ELSE flow

\* for job in exports: forecast.delete_forecast_export_job(ForecastExportJobArn=job)
\* One delete call outside wait_till_delete: an exception ends the run.
DeleteOnce(program, deps) ==
    /\ flow = "running"
    /\ cell \in 1..Len(program)
    /\ ~program[cell].confirm
    /\ LET r == arn[program[cell].var] IN
         /\ callLog' = Append(callLog, DeleteCall(deps, program[cell].op, r))
         /\ remote' = AfterDelete(deps, r)
         /\ IF DeleteAnswer(deps, r) = OK
              THEN Advance(program)
              ELSE flow' = "aborted" /\ cell' = cell
    /\ UNCHANGED <<target, arn, observed, wtdVars, pollVars>>

\* wait_till_delete(lambda: forecast.delete_...(...Arn=...)): the call.
DeleteWaitCall(program) ==
    /\ flow = "running"
    /\ cell \in 1..Len(program)
    /\ program[cell].confirm
    /\ WtdEnter(DefaultCheckTime, None)
    /\ target' = arn[program[cell].var]
    /\ UNCHANGED <<cell, flow, remote, arn, observed, callLog, pollVars>>

DeleteWaitLoopTest ==
    /\ flow = "running"
    /\ WtdLoopTest
    /\ UNCHANGED <<runVars, pollVars>>

\* The callback: the lambda issues the delete call of the cell.
DeleteWaitCallback(program, deps) ==
    /\ flow = "running"
    /\ Len(trace) < MaxRunCalls
    /\ WtdCallback(DeleteAnswer(deps, target))
    /\ callLog' = Append(callLog, DeleteCall(deps, program[cell].op, target))
    /\ remote' = AfterDelete(deps, target)
    /\ UNCHANGED <<cell, flow, target, arn, observed, pollVars>>

DeleteWaitSleep ==
    /\ flow = "running"
    /\ WtdSleep
    /\ UNCHANGED <<runVars, pollVars>>

\* wait_till_delete returned: the next statement of the notebook runs.
DeleteWaitReturn(program) ==
    /\ flow = "running"
    /\ wtd_pc = "returned"
    /\ wtd_pc' = "idle"
    /\ target' = ""
    /\ Advance(program)
    /\ UNCHANGED <<elapsed_time, check_time, timeout, trace, sleeps, raised>>
    /\ UNCHANGED <<remote, arn, observed, callLog, pollVars>>

\* DeleteWaitRaise undoing the deletion when the wait has timed out: it
\* issues a cancelling call that puts an accepted deletion back to ACTIVE.
DeleteWaitRaise_Cancel ==
    /\ flow = "running"
    /\ wtd_pc \in {"timeout", "error"}
    /\ flow' = "aborted"
    /\ callLog' = IF wtd_pc = "timeout"
                    THEN Append(callLog, [op |-> "stop_resource", id |-> target,
                                          answer |-> OK, blockers |-> {}])
                    ELSE callLog
    /\ remote' = IF wtd_pc = "timeout" /\ remote[target] = Deleting
                   THEN [remote EXCEPT ![target] = Active]
                   ELSE remote
    /\ UNCHANGED <<cell, target, arn, observed, wtdVars, pollVars>>

\* wait_till_delete raised: the exception ends the run.
DeleteWaitRaise ==
    /\ flow = "running"
    /\ wtd_pc \in {"timeout", "error"}
    /\ flow' = "aborted"
    /\ UNCHANGED <<cell, target, remote, arn, observed, callLog, wtdVars, pollVars>>

(***************************************************************************)
(* SpecCleanup: the Cleanup notebook run from its first delete cell, with  *)
(* every resource of notebooks 1 - 3 present, against the remote service.  *)
(***************************************************************************)
InitCleanup ==
    /\ IdleWtd /\ IdlePoll
    /\ cell = 1
    /\ flow = "running"
    /\ target = ""
    /\ remote = [r \in CleanupResources |-> Active]
    /\ arn = [v \in CleanupResources |-> v]
    /\ observed = <<>>
    /\ callLog = <<>>

CleanupDeleteExport == DeleteOnce(CleanupProgram, CleanupDependsOn)
CleanupWaitCall     == DeleteWaitCall(CleanupProgram)
CleanupLoopTest     == DeleteWaitLoopTest
CleanupCallback     == DeleteWaitCallback(CleanupProgram, CleanupDependsOn)
CleanupSleep        == DeleteWaitSleep
CleanupWaitReturn   == DeleteWaitReturn(CleanupProgram)
CleanupWaitRaise    == DeleteWaitRaise

CleanupRemote ==
    /\ \E r \in DOMAIN remote : RemoteFinishDelete(r)
    /\ UNCHANGED <<cell, flow, target, arn, observed, callLog, wtdVars, pollVars>>

NextCleanup ==
    \/ CleanupDeleteExport
    \/ CleanupWaitCall
    \/ CleanupLoopTest
    \/ CleanupCallback
    \/ CleanupSleep
    \/ CleanupWaitReturn
    \/ CleanupWaitRaise
    \/ CleanupRemote

SpecCleanup == InitCleanup /\ [][NextCleanup]_vars

(***************************************************************************)
(* The remote service on creation: a create call returns the identifier of *)
(* the new resource or fails with a creation error; a call that references *)
(* a resource that is not ACTIVE is rejected. Dataset groups and datasets  *)
(* are ACTIVE when the create call returns; import jobs, predictors and    *)
(* forecasts are created asynchronously and end ACTIVE or CREATE_FAILED.   *)
(***************************************************************************)
AlreadyExists == "ResourceAlreadyExistsException"
Unobserved    == "unobserved"

\* The status a resource has when its create call returns.
StatusAtCreate(op) ==
    IF op \in {"create_dataset_group", "create_dataset"} THEN Active ELSE Pending

\* The answers the service can give to a create or update call passing ids.
CallAnswers(kind, ids) ==
    IF \E a \in ids : a = Unset \/ remote[a] # Active THEN {InUse}
    ELSE IF kind = "create" THEN {OK, AlreadyExists}
    ELSE {OK}

\* The far end works on an asynchronous creation.
RemoteCreateProgress(r) ==
    \/ /\ remote[r] = Pending
       /\ remote' = [remote EXCEPT ![r] = InProgress]
    \/ /\ remote[r] = InProgress
       /\ \E s \in TerminalStatuses : remote' = [remote EXCEPT ![r] = s]

(***************************************************************************)
(* util.wait(status_check): the wait of the notebooks on a describe call.  *)
(* It polls until ACTIVE (returns the snapshot) or CREATE_FAILED (fails    *)
(* with RemoteOperationFailed), sleeping between two polls.                *)
(***************************************************************************)
UtilWaitAfter(s) ==
    IF s = Active THEN "done"
    ELSE IF s = CreateFailed THEN "failed"
    ELSE "sleep"

(***************************************************************************)
(* The what-if notebook: its identifier variables and its cells from       *)
(* create_dataset_group to the wait on the second forecast.                *)
(***************************************************************************)
WhatIfVariables ==
    {"dataset_group_arn", "tts_dataset_arn", "rts_dataset_arn",
     "tts_dataset_import_job_arn", "rts_dataset_import_job_arn",
     "predictor_arn_1", "forecast_arn_1", "predictor_arn_2", "forecast_arn_2"}

WhatIfResources ==
    {"dsg", "tts", "rts", "tts_import", "rts_import1",
     "predictor_1", "forecast_1", "predictor_2", "forecast_2"}

\* One cell step: a create call that binds var to the identifier of res, an
\* update call, a poll loop or util.wait on var, or a single describe call;
\* uses are the identifier variables the call passes.
Cell(kind, op, uses, v, res) ==
    [kind |-> kind, op |-> op, uses |-> uses, var |-> v, res |-> res]

WhatIfCells ==
    << Cell("create", "create_dataset_group", {}, "dataset_group_arn", "dsg"),
       Cell("create", "create_dataset", {}, "tts_dataset_arn", "tts"),
       Cell("create", "create_dataset", {}, "rts_dataset_arn", "rts"),
       Cell("update", "update_dataset_group",
            {"dataset_group_arn", "tts_dataset_arn", "rts_dataset_arn"}, "", ""),
       Cell("create", "create_dataset_import_job", {"tts_dataset_arn"},
            "tts_dataset_import_job_arn", "tts_import"),
       Cell("create", "create_dataset_import_job", {"rts_dataset_arn"},
            "rts_dataset_import_job_arn", "rts_import1"),
       Cell("poll", "describe_dataset_import_job", {}, "tts_dataset_import_job_arn", ""),
       Cell("poll", "describe_dataset_import_job", {}, "rts_dataset_import_job_arn", ""),
       Cell("create", "create_auto_predictor", {"dataset_group_arn"},
            "predictor_arn_1", "predictor_1"),
       Cell("wait", "describe_auto_predictor", {}, "predictor_arn_1", ""),
       Cell("describe", "describe_auto_predictor", {}, "predictor_arn_1", ""),
       Cell("create", "create_forecast", {"predictor_arn_1"},
            "forecast_arn_1", "forecast_1"),
       Cell("wait", "describe_forecast", {}, "forecast_arn_1", ""),
       Cell("describe", "describe_forecast", {}, "forecast_arn_1", ""),
       Cell("create", "create_auto_predictor", {"dataset_group_arn"},
            "predictor_arn_2", "predictor_2"),
       Cell("wait", "describe_auto_predictor", {}, "predictor_arn_2", ""),
       Cell("describe", "describe_auto_predictor", {}, "predictor_arn_2", ""),
       Cell("create", "create_forecast", {"predictor_arn_2"},
            "forecast_arn_2", "forecast_2"),
       Cell("wait", "describe_forecast", {}, "forecast_arn_2", ""),
       Cell("describe", "describe_forecast", {}, "forecast_arn_2", "") >>

\* WhatIfProgram with update_dataset_group moved before the creation of the
\* related time series dataset (cells 3 and 4 exchanged).
WhatIfProgram_UpdateTooEarly ==
    [i \in 1..Len(WhatIfCells) |->
        IF i = 3 THEN WhatIfCells[4] ELSE IF i = 4 THEN WhatIfCells[3] ELSE WhatIfCells[i]]

\* WhatIfProgram with the creation of the second predictor moved before the
\* wait on the first forecast (cells 13 and 15 exchanged).
WhatIfProgram_PredictorBeforeWait ==
    [i \in 1..Len(WhatIfCells) |->
        IF i = 13 THEN WhatIfCells[15] ELSE IF i = 15 THEN WhatIfCells[13] ELSE WhatIfCells[i]]

\* WhatIfProgram with the creation of the first forecast moved before the
\* wait on its predictor (cells 10 and 12 exchanged).
WhatIfProgram_ForecastBeforeWait ==
    [i \in 1..Len(WhatIfCells) |->
        IF i = 10 THEN WhatIfCells[12] ELSE IF i = 12 THEN WhatIfCells[10] ELSE WhatIfCells[i]]

\* WhatIfProgram creating the target import job once more after the poll
\* loops on the two import jobs.
WhatIfProgram_CreateAgain ==
    SubSeq(WhatIfCells, 1, 8) \o <<WhatIfCells[5]>>
        \o SubSeq(WhatIfCells, 9, Len(WhatIfCells))

\* WhatIfProgram polling the related time series import job before the
\* target time series import job (cells 7 and 8 exchanged).
WhatIfProgram_PollRelatedFirst ==
    [i \in 1..Len(WhatIfCells) |->
        IF i = 7 THEN WhatIfCells[8] ELSE IF i = 8 THEN WhatIfCells[7] ELSE WhatIfCells[i]]

\* The cells in notebook order.
WhatIfProgram == WhatIfCells

\* The record of one create or update call: the operation, the resource
\* created, the identifiers passed and the answer. A name that no create
\* response was assigned to holds Unset, and a call passing it is recorded
\* with Unset among its identifiers.
CreateCall(c, a) ==
    [op |-> c.op, id |-> c.res, args |-> {arn[v] : v \in c.uses}, answer |-> a]

\* response = forecast.create_...(...); ..._arn = response['...Arn'], and
\* forecast.update_dataset_group(...). An exception ends the run.
CreateStep(program) ==
    /\ flow = "running"
    /\ cell \in 1..Len(program)
    /\ program[cell].kind \in {"create", "update"}
    /\ LET c == program[cell] IN
       \E a \in CallAnswers(c.kind, {arn[v] : v \in c.uses}) :
         /\ callLog' = Append(callLog, CreateCall(c, a))
         /\ IF a = OK
              THEN /\ Advance(program)
                   /\ IF c.kind = "create"
                        THEN /\ arn' = [arn EXCEPT ![c.var] = c.res]
                             /\ remote' = [remote EXCEPT ![c.res] = StatusAtCreate(c.op)]
                        ELSE UNCHANGED <<arn, remote>>
              ELSE /\ flow' = "aborted"
                   /\ UNCHANGED <<cell, arn, remote>>
    /\ UNCHANGED <<target, observed, wtdVars, pollVars>>

\* The poll loop or util.wait of the cell starts.
StatusWaitStart(program) ==
    /\ flow = "running"
    /\ cell \in 1..Len(program)
    /\ program[cell].kind \in {"poll", "wait"}
    /\ PollEnter
    /\ target' = arn[program[cell].var]
    /\ UNCHANGED <<cell, flow, remote, arn, observed, callLog, wtdVars>>

\* One describe call of the running wait and the test of the status.
StatusWaitDescribe(program) ==
    /\ flow = "running"
    /\ status_calls < MaxRunPolls
    /\ poll_pc = "describe"
    /\ LET s == remote[target] IN
         /\ PollDescribe(s, IF program[cell].kind = "poll"
                              THEN AfterStatus(s) ELSE UtilWaitAfter(s))
         /\ observed' = [observed EXCEPT ![target] = s]
    /\ UNCHANGED <<cell, flow, target, remote, arn, callLog, wtdVars>>

StatusWaitDescribeRaises ==
    /\ flow = "running"
    /\ status_calls < MaxRunPolls
    /\ PollDescribeRaises
    /\ UNCHANGED <<runVars, wtdVars>>

StatusWaitSleep ==
    /\ flow = "running"
    /\ PollSleep
    /\ UNCHANGED <<runVars, wtdVars>>

\* The wait ended normally: the next statement of the notebook runs.
StatusWaitReturn(program) ==
    /\ flow = "running"
    /\ poll_pc = "done"
    /\ poll_pc' = "idle"
    /\ target' = ""
    /\ Advance(program)
    /\ UNCHANGED <<status, status_calls, poll_sleeps, seen>>
    /\ UNCHANGED <<remote, arn, observed, callLog, wtdVars>>

\* The wait ended with an exception: it ends the run.
StatusWaitRaise ==
    /\ flow = "running"
    /\ poll_pc \in {"failed", "error"}
    /\ flow' = "aborted"
    /\ UNCHANGED <<cell, target, remote, arn, observed, callLog, wtdVars, pollVars>>

\* response = forecast.describe_...(...Arn=...); print(... response['Status'])
DescribeStep(program) ==
    /\ flow = "running"
    /\ cell \in 1..Len(program)
    /\ program[cell].kind = "describe"
    /\ observed' = [observed EXCEPT ![arn[program[cell].var]] = remote[arn[program[cell].var]]]
    /\ Advance(program)
    /\ UNCHANGED <<target, remote, arn, callLog, wtdVars, pollVars>>

(***************************************************************************)
(* SpecWhatIf: the what-if notebook run in a fresh kernel against the      *)
(* remote service.                                                         *)
(***************************************************************************)
InitWhatIf ==
    /\ IdleWtd /\ IdlePoll
    /\ cell = 1
    /\ flow = "running"
    /\ target = ""
    /\ remote = [r \in WhatIfResources |-> Gone]
    /\ arn = [v \in WhatIfVariables |-> Unset]
    /\ observed = [r \in WhatIfResources |-> Unobserved]
    /\ callLog = <<>>

WhatIfCreate         == CreateStep(WhatIfProgram)
WhatIfWaitStart      == StatusWaitStart(WhatIfProgram)
WhatIfWaitDescribe   == StatusWaitDescribe(WhatIfProgram)
WhatIfDescribeRaises == StatusWaitDescribeRaises
WhatIfWaitSleep      == StatusWaitSleep
WhatIfWaitReturn     == StatusWaitReturn(WhatIfProgram)
WhatIfWaitRaise      == StatusWaitRaise
WhatIfDescribe       == DescribeStep(WhatIfProgram)

WhatIfRemote ==
    /\ \E r \in DOMAIN remote : RemoteCreateProgress(r)
    /\ UNCHANGED <<cell, flow, target, arn, observed, callLog, wtdVars, pollVars>>

NextWhatIf ==
    \/ WhatIfCreate
    \/ WhatIfWaitStart
    \/ WhatIfWaitDescribe
    \/ WhatIfDescribeRaises
    \/ WhatIfWaitSleep
    \/ WhatIfWaitReturn
    \/ WhatIfWaitRaise
    \/ WhatIfDescribe
    \/ WhatIfRemote

SpecWhatIf == InitWhatIf /\ [][NextWhatIf]_vars

(***************************************************************************)
(* The resource cleanup cells of the what-if notebook (each statement is   *)
(* shipped commented out and is run by removing the '#'):                  *)
(*     util.wait_till_delete(lambda: forecast.delete_...(...Arn = ...))    *)
(* util.wait_till_delete is the wait_till_delete above.                    *)
(***************************************************************************)
DeleteOps ==
    {"delete_forecast_export_job", "delete_forecast", "delete_predictor",
     "delete_dataset_import_job", "delete_dataset", "delete_dataset_group"}

\* What each resource of the what-if notebook was created from.
WhatIfDependsOn ==
    [r \in WhatIfResources \ {"dsg"} |->
        CASE r = "forecast_1"  -> "predictor_1"
          [] r = "forecast_2"  -> "predictor_2"
          [] r = "tts_import"  -> "tts"
          [] r = "rts_import1" -> "rts"
          [] OTHER             -> "dsg"]

\* WhatIfCleanupProgram deleting the predictors before their forecasts.
WhatIfCleanupProgram_PredictorsFirst ==
    << Step("delete_predictor", "predictor_arn_1", TRUE),
       Step("delete_predictor", "predictor_arn_2", TRUE),
       Step("delete_forecast", "forecast_arn_1", TRUE),
       Step("delete_forecast", "forecast_arn_2", TRUE),
       Step("delete_dataset_import_job", "tts_dataset_import_job_arn", TRUE),
       Step("delete_dataset_import_job", "rts_dataset_import_job_arn", TRUE),
       Step("delete_dataset", "tts_dataset_arn", TRUE),
       Step("delete_dataset", "rts_dataset_arn", TRUE),
       Step("delete_dataset_group", "dataset_group_arn", TRUE) >>

\* The cleanup statements in notebook order.
WhatIfCleanupProgram ==
    << Step("delete_forecast", "forecast_arn_1", TRUE),
       Step("delete_forecast", "forecast_arn_2", TRUE),
       Step("delete_predictor", "predictor_arn_1", TRUE),
       Step("delete_predictor", "predictor_arn_2", TRUE),
       Step("delete_dataset_import_job", "tts_dataset_import_job_arn", TRUE),
       Step("delete_dataset_import_job", "rts_dataset_import_job_arn", TRUE),
       Step("delete_dataset", "tts_dataset_arn", TRUE),
       Step("delete_dataset", "rts_dataset_arn", TRUE),
       Step("delete_dataset_group", "dataset_group_arn", TRUE) >>

\* The identifier variables after the creation cells have all run.
WhatIfArnAfter ==
    [v \in WhatIfVariables |->
        WhatIfCells[CHOOSE i \in 1..Len(WhatIfCells) :
                        WhatIfCells[i].kind = "create" /\ WhatIfCells[i].var = v].res]

\* The create and update calls of a creation run that reached its end.
WhatIfCreatedLog ==
    LET IsCall(c) == c.kind \in {"create", "update"}
        calls == SelectSeq(WhatIfCells, IsCall)
    IN  [i \in 1..Len(calls) |->
            [op |-> calls[i].op, id |-> calls[i].res,
             args |-> {WhatIfArnAfter[v] : v \in calls[i].uses}, answer |-> OK]]

(***************************************************************************)
(* SpecWhatIfCleanup: the cleanup cells of the what-if notebook, run after *)
(* the creation cells have all run (the import jobs ended ACTIVE or        *)
(* CREATE_FAILED, everything else is ACTIVE), against the remote service.  *)
(* No wait_till_delete of this run raises (C11_DeletesDependentsFirst), so *)
(* the run has no step for a raised exception.                             *)
(***************************************************************************)
InitWhatIfCleanup ==
    /\ IdleWtd /\ IdlePoll
    /\ cell = 1
    /\ flow = "running"
    /\ target = ""
    /\ \E ti, ri \in TerminalStatuses :
          remote = [r \in WhatIfResources |->
                        IF r = "tts_import" THEN ti
                        ELSE IF r = "rts_import1" THEN ri
                        ELSE Active]
    /\ arn = WhatIfArnAfter
    /\ observed = remote
    /\ callLog = WhatIfCreatedLog


WhatIfDeleteRemote ==
    /\ \E r \in DOMAIN remote : RemoteFinishDelete(r)
    /\ UNCHANGED <<cell, flow, target, arn, observed, callLog, wtdVars, pollVars>>

NextWhatIfCleanup ==
    \/ DeleteWaitCall(WhatIfCleanupProgram)
    \/ DeleteWaitLoopTest
    \/ DeleteWaitCallback(WhatIfCleanupProgram, WhatIfDependsOn)
    \/ DeleteWaitSleep
    \/ DeleteWaitReturn(WhatIfCleanupProgram)
    \/ WhatIfDeleteRemote

SpecWhatIfCleanup == InitWhatIfCleanup /\ [][NextWhatIfCleanup]_vars

(***************************************************************************)
(* The remote service, continued: stop_resource turns a creation that is   *)
(* still going on into a stopped one; it is answered with an error for a   *)
(* resource that is not being created.                                     *)
(***************************************************************************)
Stopping == "CREATE_STOPPING"

StopAnswer(r) ==
    IF r # Unset /\ remote[r] \in {Pending, InProgress} THEN OK ELSE InUse

AfterStop(r) ==
    IF StopAnswer(r) = OK THEN [remote EXCEPT ![r] = Stopping] ELSE remote

\* The far end completes an accepted stop.
RemoteFinishStop(r) ==
    /\ remote[r] = Stopping
    /\ remote' = [remote EXCEPT ![r] = Stopped]

(***************************************************************************)
(* The notebook that trains a predictor and creates a forecast, stopping   *)
(* and deleting each of them once and submitting it again under the same   *)
(* name: its identifier variables and its cells from create_predictor to   *)
(* query_forecast. The dataset group was created by an earlier notebook    *)
(* and its identifier is restored by %store -r.                            *)
(***************************************************************************)
StopVariables == {"dataset_group_arn", "predictor_arn_deep_ar", "forecast_arn_deep_ar"}

StopResources == {"dsg", "predictor_deep_ar", "forecast_deep_ar"}

StopDependsOn ==
    [r \in {"predictor_deep_ar", "forecast_deep_ar"} |->
        IF r = "forecast_deep_ar" THEN "predictor_deep_ar" ELSE "dsg"]

\* One cell step of this notebook: a Cell, or a stop_resource call, a
\* wait_till_delete on a delete call, or a query on var.
FlowCell(kind, op, uses, v, res) ==
    [kind |-> kind, op |-> op, uses |-> uses, var |-> v, res |-> res,
     confirm |-> (kind = "delete")]

StopCells ==
    << FlowCell("create", "create_predictor", {"dataset_group_arn"},
                "predictor_arn_deep_ar", "predictor_deep_ar"),
       FlowCell("stop", "stop_resource", {}, "predictor_arn_deep_ar", ""),
       FlowCell("delete", "delete_predictor", {}, "predictor_arn_deep_ar", ""),
       FlowCell("create", "create_predictor", {"dataset_group_arn"},
                "predictor_arn_deep_ar", "predictor_deep_ar"),
       FlowCell("wait", "describe_predictor", {}, "predictor_arn_deep_ar", ""),
       FlowCell("describe", "describe_predictor", {}, "predictor_arn_deep_ar", ""),
       FlowCell("query", "get_accuracy_metrics", {}, "predictor_arn_deep_ar", ""),
       FlowCell("create", "create_forecast", {"predictor_arn_deep_ar"},
                "forecast_arn_deep_ar", "forecast_deep_ar"),
       FlowCell("stop", "stop_resource", {}, "forecast_arn_deep_ar", ""),
       FlowCell("delete", "delete_forecast", {}, "forecast_arn_deep_ar", ""),
       FlowCell("create", "create_forecast", {"predictor_arn_deep_ar"},
                "forecast_arn_deep_ar", "forecast_deep_ar"),
       FlowCell("wait", "describe_forecast", {}, "forecast_arn_deep_ar", ""),
       FlowCell("describe", "describe_forecast", {}, "forecast_arn_deep_ar", ""),
       FlowCell("query", "query_forecast", {}, "forecast_arn_deep_ar", "") >>

\* StopProgram deleting the predictor without stopping it first (cell 2 left
\* out).
StopProgram_DeleteUnstopped ==
    <<StopCells[1]>> \o SubSeq(StopCells, 3, Len(StopCells))

\* StopProgram submitting the predictor again before deleting the stopped
\* one (cells 3 and 4 exchanged).
StopProgram_ResubmitTooEarly ==
    [i \in 1..Len(StopCells) |->
        IF i = 3 THEN StopCells[4] ELSE IF i = 4 THEN StopCells[3] ELSE StopCells[i]]

\* StopProgram going on with the deleted predictor: the second
\* create_predictor cell and the wait on it are left out.
StopProgram_NotResubmitted ==
    SubSeq(StopCells, 1, 3) \o SubSeq(StopCells, 6, Len(StopCells))

\* The cells in notebook order.
StopProgram == StopCells

\* stop_..._arn_deep_ar = forecast.stop_resource(ResourceArn=...). An
\* exception ends the run.
StopStep(program) ==
    /\ flow = "running"
    /\ cell \in 1..Len(program)
    /\ program[cell].kind = "stop"
    /\ LET r == arn[program[cell].var] IN
         /\ callLog' = Append(callLog,
                [op |-> program[cell].op, id |-> r, args |-> {r}, answer |-> StopAnswer(r)])
         /\ remote' = AfterStop(r)
         /\ IF StopAnswer(r) = OK
              THEN Advance(program)
              ELSE flow' = "aborted" /\ cell' = cell
    /\ UNCHANGED <<target, arn, observed, wtdVars, pollVars>>

\* forecast.get_accuracy_metrics(PredictorArn=...) and
\* forecastquery.query_forecast(ForecastArn=...): a read of an ACTIVE
\* resource, which changes nothing remote.
QueryStep(program) ==
    /\ flow = "running"
    /\ cell \in 1..Len(program)
    /\ program[cell].kind = "query"
    /\ callLog' = Append(callLog,
            [op |-> program[cell].op, id |-> "", args |-> {arn[program[cell].var]},
             answer |-> OK])
    /\ Advance(program)
    /\ UNCHANGED <<target, remote, arn, observed, wtdVars, pollVars>>

(***************************************************************************)
(* SpecStop: that notebook run against the remote service. No              *)
(* wait_till_delete of this run raises (C17_DeleteOnlyAfterStop: every     *)
(* delete follows an accepted stop, and nothing depends on the resource    *)
(* then), so the run has no step for an exception raised by it.            *)
(***************************************************************************)
InitStop ==
    /\ IdleWtd /\ IdlePoll
    /\ cell = 1
    /\ flow = "running"
    /\ target = ""
    /\ remote = [r \in StopResources |-> IF r = "dsg" THEN Active ELSE Gone]
    /\ arn = [v \in StopVariables |-> IF v = "dataset_group_arn" THEN "dsg" ELSE Unset]
    /\ observed = [r \in StopResources |-> Unobserved]
    /\ callLog = <<>>


StopRemote ==
    /\ \E r \in DOMAIN remote :
          RemoteCreateProgress(r) \/ RemoteFinishStop(r) \/ RemoteFinishDelete(r)
    /\ UNCHANGED <<cell, flow, target, arn, observed, callLog, wtdVars, pollVars>>

NextStop ==
    \/ CreateStep(StopProgram)
    \/ StopStep(StopProgram)
    \/ DeleteWaitCall(StopProgram)
    \/ DeleteWaitLoopTest
    \/ DeleteWaitCallback(StopProgram, StopDependsOn)
    \/ DeleteWaitSleep
    \/ DeleteWaitReturn(StopProgram)
    \/ StatusWaitStart(StopProgram)
    \/ StatusWaitDescribe(StopProgram)
    \/ StatusWaitDescribeRaises
    \/ StatusWaitSleep
    \/ StatusWaitReturn(StopProgram)
    \/ StatusWaitRaise
    \/ DescribeStep(StopProgram)
    \/ QueryStep(StopProgram)
    \/ StopRemote

SpecStop == InitStop /\ [][NextStop]_vars

(***************************************************************************)
(* SpecDelete: one call of wait_till_delete on the delete call of a        *)
(* forecast, with any check_time and timeout, against the remote service;  *)
(* the forecast and its export job are present, being deleted or gone.     *)
(* The remote service completes an accepted deletion before the loop's     *)
(* call number MaxRunCalls: the sleep before that call ends after it.      *)
(***************************************************************************)
DeleteTarget == "prophet_forecast_arn"

DeleteProgram == << Step("delete_forecast", DeleteTarget, TRUE) >>

InitDelete ==
    /\ IdleWtd /\ IdlePoll
    /\ cell = 1
    /\ flow = "running"
    /\ target = ""
    /\ \E f, e \in {Active, Deleting, Gone} :
          /\ f # Active => e = Gone
          /\ remote = [r \in CleanupResources |->
                          IF r = DeleteTarget THEN f
                          ELSE IF r = "prophet_export_forecast_arn" THEN e
                          ELSE Active]
    /\ arn = [v \in CleanupResources |-> v]
    /\ observed = <<>>
    /\ callLog = <<>>

DeleteCallWith ==
    /\ flow = "running"
    /\ cell \in 1..Len(DeleteProgram)
    /\ \E ct \in CheckTimes, to \in Timeouts : WtdEnter(ct, to)
    /\ target' = arn[DeleteProgram[cell].var]
    /\ UNCHANGED <<cell, flow, remote, arn, observed, callLog, pollVars>>

DeleteCallback ==
    /\ wtd_pc = "call"
    /\ DeleteWaitCallback(DeleteProgram, CleanupDependsOn)

DeleteSleep ==
    /\ wtd_pc = "sleep"
    /\ Len(trace) < MaxRunCalls - 1 \/ remote[DeleteTarget] # Deleting
    /\ DeleteWaitSleep


DeleteRemote ==
    /\ \E r \in DOMAIN remote : RemoteFinishDelete(r)
    /\ UNCHANGED <<cell, flow, target, arn, observed, callLog, wtdVars, pollVars>>

\* The steps of the notebook's own thread.
DeleteLocal ==
    \/ DeleteCallWith
    \/ DeleteWaitLoopTest
    \/ DeleteCallback
    \/ DeleteSleep
    \/ DeleteWaitReturn(DeleteProgram)
    \/ DeleteWaitRaise

NextDelete == DeleteLocal \/ DeleteRemote


\* The interpreter keeps running the notebook's thread, and the remote
\* service completes every deletion it has accepted.
SpecDeleteLive ==
    InitDelete /\ [][NextDelete]_vars
        /\ WF_vars(DeleteLocal) /\ WF_vars(DeleteRemote)

(***************************************************************************)
(* The clean-up cells of the item-metadata notebook (each statement is     *)
(* shipped commented out and is run by removing the '#'): seven            *)
(* util.wait_till_delete(lambda: forecast.delete_...(...)) statements and  *)
(* a bare forecast.delete_dataset_group(...) call.                         *)
(***************************************************************************)
MetaResources ==
    {"forecast_export_arn", "forecast_arn", "predictor_arn",
     "ts_dataset_import_job_arn", "meta_dataset_import_job_arn",
     "ts_dataset_arn", "meta_dataset_arn", "dataset_group_arn"}

\* What each resource of the item-metadata notebook was created from.
MetaDependsOn ==
    [r \in MetaResources \ {"dataset_group_arn"} |->
        CASE r = "forecast_export_arn"         -> "forecast_arn"
          [] r = "forecast_arn"                -> "predictor_arn"
          [] r = "ts_dataset_import_job_arn"   -> "ts_dataset_arn"
          [] r = "meta_dataset_import_job_arn" -> "meta_dataset_arn"
          [] OTHER                             -> "dataset_group_arn"]

\* MetaCleanupProgram with delete_dataset_group wrapped in wait_till_delete
\* like the other delete calls.
MetaCleanupProgram_GroupConfirmed ==
    << Step("delete_forecast_export_job", "forecast_export_arn", TRUE),
       Step("delete_forecast", "forecast_arn", TRUE),
       Step("delete_predictor", "predictor_arn", TRUE),
       Step("delete_dataset_import_job", "ts_dataset_import_job_arn", TRUE),
       Step("delete_dataset_import_job", "meta_dataset_import_job_arn", TRUE),
       Step("delete_dataset", "ts_dataset_arn", TRUE),
       Step("delete_dataset", "meta_dataset_arn", TRUE),
       Step("delete_dataset_group", "dataset_group_arn", TRUE) >>

\* The clean-up statements in notebook order.
MetaCleanupProgram ==
    << Step("delete_forecast_export_job", "forecast_export_arn", TRUE),
       Step("delete_forecast", "forecast_arn", TRUE),
       Step("delete_predictor", "predictor_arn", TRUE),
       Step("delete_dataset_import_job", "ts_dataset_import_job_arn", TRUE),
       Step("delete_dataset_import_job", "meta_dataset_import_job_arn", TRUE),
       Step("delete_dataset", "ts_dataset_arn", TRUE),
       Step("delete_dataset", "meta_dataset_arn", TRUE),
       Step("delete_dataset_group", "dataset_group_arn", FALSE) >>

(***************************************************************************)
(* SpecMetaCleanup: the clean-up cells of the item-metadata notebook, run  *)
(* after its creation cells, every resource being ACTIVE, against the      *)
(* remote service. No statement of this run raises                         *)
(* (C25_ConfirmedExceptGroup), so the run has no step for an exception.    *)
(***************************************************************************)
InitMetaCleanup ==
    /\ IdleWtd /\ IdlePoll
    /\ cell = 1
    /\ flow = "running"
    /\ target = ""
    /\ remote = [r \in MetaResources |-> Active]
    /\ arn = [v \in MetaResources |-> v]
    /\ observed = <<>>
    /\ callLog = <<>>


MetaRemote ==
    /\ \E r \in DOMAIN remote : RemoteFinishDelete(r)
    /\ UNCHANGED <<cell, flow, target, arn, observed, callLog, wtdVars, pollVars>>

NextMetaCleanup ==
    \/ DeleteOnce(MetaCleanupProgram, MetaDependsOn)
    \/ DeleteWaitCall(MetaCleanupProgram)
    \/ DeleteWaitLoopTest
    \/ DeleteWaitCallback(MetaCleanupProgram, MetaDependsOn)
    \/ DeleteWaitSleep
    \/ DeleteWaitReturn(MetaCleanupProgram)
    \/ MetaRemote

SpecMetaCleanup == InitMetaCleanup /\ [][NextMetaCleanup]_vars

(***************************************************************************)
(* SpecTimedWait: wait_till_delete called with a finite timeout, followed  *)
(* for as long as it runs. The record of the callback outcomes and the     *)
(* count of the sleeps, which the function itself does not keep, are cut   *)
(* to the last MaxCalls entries and stop counting at MaxCalls;             *)
(* elapsed_time is kept exactly.                                           *)
(***************************************************************************)
FiniteTimeouts == Timeouts \ {None}

TimedCall ==
    /\ \E ct \in CheckTimes, to \in FiniteTimeouts : WtdEnter(ct, to)
    /\ UNCHANGED <<pollVars, runVars>>

TimedLoopTest == WtdLoopTest /\ UNCHANGED <<pollVars, runVars>>

\* out = callback() with its except clause.
TimedCallback ==
    /\ wtd_pc = "call"
    /\ \E o \in Outcomes :
          /\ trace' = IF Len(trace) < MaxCalls
                        THEN Append(trace, o) ELSE Append(Tail(trace), o)
          /\ wtd_pc' = AfterCallback(o)
          /\ raised' = IF AfterCallback(o) = "error" THEN o ELSE raised
    /\ UNCHANGED <<elapsed_time, check_time, timeout, sleeps>>
    /\ UNCHANGED <<pollVars, runVars>>

\* time.sleep(check_time); elapsed_time += check_time
TimedSleep ==
    /\ wtd_pc = "sleep"
    /\ sleeps' = IF sleeps < MaxCalls THEN sleeps + 1 ELSE sleeps
    /\ elapsed_time' = elapsed_time + check_time
    /\ wtd_pc' = "loop"
    /\ UNCHANGED <<check_time, timeout, trace, raised>>
    /\ UNCHANGED <<pollVars, runVars>>

NextTimedWait == TimedCall \/ TimedLoopTest \/ TimedCallback \/ TimedSleep


\* The interpreter keeps running the function.
SpecTimedWaitLive ==
    InitWait /\ [][NextTimedWait]_vars
        /\ WF_vars(NextTimedWait)

(***************************************************************************)
(* SpecPollJob: the poll loop on the target time series import job,        *)
(* followed for as long as it runs, against the remote service, where the  *)
(* creation of the job goes on to ACTIVE or CREATE_FAILED, or is being     *)
(* stopped and settles in CREATE_STOPPED. The counts of the status calls   *)
(* and sleeps and the record of the statuses, which the loop itself does   *)
(* not keep, stop counting at MaxPolls and are cut to the last MaxPolls    *)
(* entries.                                                                *)
(***************************************************************************)
PolledJob == "tts_import"

InitPollJob ==
    /\ IdleWtd /\ IdlePoll
    /\ cell = 0
    /\ flow = "running"
    /\ target = PolledJob
    /\ \E s \in {Pending, Stopping} : remote = [r \in {PolledJob} |-> s]
    /\ arn = <<>>
    /\ observed = <<>>
    /\ callLog = <<>>

JobPollStart == PollEnter /\ UNCHANGED <<wtdVars, runVars>>

\* status = forecast.describe_dataset_import_job(...)['Status'], the update
\* of the indicator and the test of the status.
JobPollDescribe ==
    /\ poll_pc = "describe"
    /\ status' = remote[target]
    /\ status_calls' = IF status_calls < MaxPolls THEN status_calls + 1 ELSE status_calls
    /\ seen' = IF Len(seen) < MaxPolls
                 THEN Append(seen, remote[target]) ELSE Append(Tail(seen), remote[target])
    /\ poll_pc' = AfterStatus(remote[target])
    /\ UNCHANGED poll_sleeps
    /\ UNCHANGED <<wtdVars, runVars>>

\* The describe call raises: nothing catches it, the cell ends with it.
JobPollRaises ==
    /\ poll_pc = "describe"
    /\ status_calls' = IF status_calls < MaxPolls THEN status_calls + 1 ELSE status_calls
    /\ poll_pc' = "error"
    /\ UNCHANGED <<status, seen, poll_sleeps>>
    /\ UNCHANGED <<wtdVars, runVars>>

\* time.sleep(10)
JobPollSleep ==
    /\ poll_pc = "sleep"
    /\ poll_sleeps' = IF poll_sleeps < MaxPolls THEN poll_sleeps + 1 ELSE poll_sleeps
    /\ poll_pc' = "describe"
    /\ UNCHANGED <<status, status_calls, seen>>
    /\ UNCHANGED <<wtdVars, runVars>>

JobRemote ==
    /\ RemoteCreateProgress(PolledJob) \/ RemoteFinishStop(PolledJob)
    /\ UNCHANGED <<cell, flow, target, arn, observed, callLog, wtdVars, pollVars>>

\* The steps of the notebook's own thread.
JobLocal == JobPollStart \/ JobPollDescribe \/ JobPollRaises \/ JobPollSleep

NextPollJob == JobLocal \/ JobRemote


\* The interpreter keeps running the loop, and the remote service keeps
\* working on the job.
SpecPollJobLive ==
    InitPollJob /\ [][NextPollJob]_vars
        /\ WF_vars(JobLocal) /\ WF_vars(JobRemote)

(***************************************************************************)
(* Claims about wait_till_delete (SpecWait).                               *)
(***************************************************************************)

\* C1: if the callback returns normally on invocations 1..N-1 and raises
\* 'resource not found' on invocation N, wait_till_delete has returned
\* success with exactly N callback invocations, and in no later state has
\* the callback been invoked again.
C1_ReturnsAfterExactlyN ==
    \A n \in 1..Len(trace) :
        (trace[n] = NotFound /\ \A i \in 1..(n - 1) : trace[i] = OK)
            => (wtd_pc = "returned" /\ Len(trace) = n /\ raised = "")

C1_Witness == wtd_pc = "returned" /\ Len(trace) = 3

\* C2: wait_till_delete returns normally only when its most recent callback
\* invocation raised 'resource not found'; a callback that returns normally
\* is always followed by one sleep of check_time and a new loop test, and
\* the return on 'not found' happens without a sleep after that invocation.
C2_ReturnOnlyOnNotFound ==
    /\ [](wtd_pc = "returned" =>
            /\ trace # <<>>
            /\ Last(trace) = NotFound
            /\ \A i \in 1..(Len(trace) - 1) : trace[i] = OK
            /\ sleeps = Len(trace) - 1)
    /\ [][(trace' # trace /\ Last(trace') = OK) => wtd_pc' = "sleep"]_vars
    /\ [][wtd_pc = "sleep" =>
            /\ wtd_pc' = "loop"
            /\ sleeps' = sleeps + 1
            /\ elapsed_time' = elapsed_time + check_time]_vars
    /\ [][(wtd_pc # "returned" /\ wtd_pc' = "returned") =>
            /\ sleeps' = sleeps
            /\ trace' # trace
            /\ Last(trace') = NotFound]_vars

C2_Witness ==
    wtd_pc = "returned" /\ Len(trace) = 2 /\ sleeps = 1 /\ check_time > 0

\* C3: with a timeout configured, once elapsed_time has reached the timeout
\* without a 'not found' answer the function raises TimeoutError: the next
\* step is the raise, and the callback is not invoked at or after that point.
TimeoutReached == timeout # None /\ elapsed_time >= timeout[1]

C3_TimeoutRaised ==
    /\ [](TimeoutReached => (wtd_pc \in {"loop", "timeout"}
                             /\ NotFound \notin {trace[i] : i \in 1..Len(trace)}))
    /\ [](wtd_pc = "timeout" => (TimeoutReached /\ raised = "TimeoutError"))
    /\ [][TimeoutReached =>
            /\ trace' = trace
            /\ wtd_pc' = "timeout"
            /\ raised' = "TimeoutError"]_vars

C3_Witness ==
    wtd_pc = "timeout" /\ Len(trace) = 2 /\ timeout = Some(4) /\ check_time = 2

\* C4: when a callback invocation raises an error other than 'resource not
\* found', that same error leaves wait_till_delete on that invocation: no
\* sleep follows, no further invocation, no success and no timeout.
C4_OtherErrorsPropagate ==
    \A n \in 1..Len(trace) :
        trace[n] \in OtherErrors =>
            /\ Len(trace) = n
            /\ wtd_pc = "error"
            /\ raised = trace[n]
            /\ sleeps = n - 1

C4_Witness ==
    wtd_pc = "error" /\ raised = InUse /\ Len(trace) = 2 /\ sleeps = 1

(***************************************************************************)
(* Claims about the status poll loop (SpecPoll).                           *)
(***************************************************************************)

\* The first terminal status of the observed sequence is its element n.
FirstTerminalAt(n) ==
    /\ n \in 1..Len(seen)
    /\ seen[n] \in TerminalStatuses
    /\ \A i \in 1..(n - 1) : seen[i] \notin TerminalStatuses

\* C7: when the first terminal status observed is CREATE_FAILED, the wait
\* ends in a failure outcome carrying that snapshot, after as many status
\* calls as statuses observed, and never as a normal completion.
C7_FailedEndsInFailure ==
    \A n \in 1..Len(seen) :
        (FirstTerminalAt(n) /\ seen[n] = CreateFailed)
            => (poll_pc = "failed" /\ status = CreateFailed /\ status_calls = n)

\* C8: when the observed statuses end in ACTIVE with no terminal status
\* before it, the wait has ended with the ACTIVE snapshot and the number of
\* status calls is the length of the sequence: no call after the terminal one.
C8_ActiveEndsWait ==
    \A n \in 1..Len(seen) :
        (FirstTerminalAt(n) /\ seen[n] = Active)
            => /\ poll_pc = "done"
               /\ status = Active
               /\ Len(seen) = n
               /\ status_calls = n

C8_Witness ==
    poll_pc = "done" /\ seen = <<InProgress, InProgress, Active>> /\ status_calls = 3

(***************************************************************************)
(* Claims about the Cleanup notebook (SpecCleanup).                        *)
(***************************************************************************)

\* The delete calls before call i that were answered 'not found': the
\* resources whose deletion is confirmed when call i is issued.
ConfirmedGoneBefore(i) ==
    {callLog[j].id : j \in {k \in 1..(i - 1) : callLog[k].answer = NotFound}}

\* C5: a delete call for a resource is issued only after every resource that
\* depends on it has been confirmed gone by a 'not found' answer.
C5_ParentAfterDependentsGone ==
    \A i \in 1..Len(callLog) :
        Dependents(CleanupDependsOn, callLog[i].id) \subseteq ConfirmedGoneBefore(i)

C9_CreateOnlyAfterActive ==
    \A i \in 1..Len(callLog) :
        /\ callLog[i].op = "create_auto_predictor" =>
              (observed["tts_import"] = Active /\ observed["rts_import1"] = Active)
        /\ callLog[i].op = "create_forecast" =>
              \A a \in callLog[i].args : observed[a] = Active

\* C10: every identifier a create or update call passes was returned by an
\* earlier create call of the run: no call precedes the creation of a
\* resource it references.
C10_CreatedBeforeReferenced ==
    \A i \in 1..Len(callLog) :
        \A a \in callLog[i].args :
            \E j \in 1..(i - 1) : callLog[j].id = a /\ callLog[j].answer = OK

C10_Witness ==
    /\ flow = "finished"
    /\ Len(callLog) = 10
    /\ Last(callLog).op = "create_forecast"
    /\ Last(callLog).args = {"predictor_2"}

(***************************************************************************)
(* Claims about the cleanup cells of the what-if notebook                  *)
(* (SpecWhatIfCleanup).                                                    *)
(***************************************************************************)

\* The position in callLog of the create call of resource r, and of the
\* first delete call for r (0 when there is none).
CreatedAt(r) ==
    LET S == {i \in 1..Len(callLog) :
                 callLog[i].op \notin DeleteOps /\ callLog[i].id = r}
    IN  IF S = {} THEN 0 ELSE CHOOSE i \in S : \A j \in S : i <= j

FirstDeleteAt(r) ==
    LET S == {i \in 1..Len(callLog) :
                 callLog[i].op \in DeleteOps /\ callLog[i].id = r}
    IN  IF S = {} THEN 0 ELSE CHOOSE i \in S : \A j \in S : i <= j

\* The resources in the order of their first delete call.
RECURSIVE DeleteOrderFrom(_)
DeleteOrderFrom(i) ==
    IF i > Len(callLog) THEN <<>>
    ELSE IF callLog[i].op \in DeleteOps /\ FirstDeleteAt(callLog[i].id) = i
         THEN <<callLog[i].id>> \o DeleteOrderFrom(i + 1)
         ELSE DeleteOrderFrom(i + 1)

DeleteOrder == DeleteOrderFrom(1)

WhatIfDeleteSequence ==
    << "forecast_1", "forecast_2", "predictor_1", "predictor_2",
       "tts_import", "rts_import1", "tts", "rts", "dsg" >>

C12_SleepsBetweenStatusCalls ==
    /\ [](/\ poll_pc = "describe" => poll_sleeps = status_calls
          /\ poll_pc \in {"sleep", "done", "error"} => poll_sleeps = status_calls - 1
          /\ (poll_pc = "done" /\ seen[1] \in TerminalStatuses)
                => (status_calls = 1 /\ poll_sleeps = 0))
    /\ [][poll_sleeps' # poll_sleeps =>
            /\ poll_sleeps' = poll_sleeps + 1
            /\ Len(seen) = status_calls
            /\ Last(seen) \notin TerminalStatuses
            /\ poll_pc' = "describe"]_vars
    /\ [][(seen' # seen /\ Last(seen') \in TerminalStatuses) => poll_pc' = "done"]_vars
    /\ [][poll_pc = "done" => poll_pc' = "done" /\ poll_sleeps' = poll_sleeps]_vars

C12_Witness ==
    /\ poll_pc = "done"
    /\ status_calls = 3
    /\ poll_sleeps = 2

\* C13: a status other than ACTIVE and CREATE_FAILED never ends the wait: the
\* loop sleeps on it and then makes the next status call.
C13_OtherStatusContinues ==
    /\ [](poll_pc = "done" => status \in TerminalStatuses)
    /\ [][(seen' # seen /\ Last(seen') \notin TerminalStatuses) => poll_pc' = "sleep"]_vars
    /\ [][poll_pc = "sleep" => poll_pc' = "describe"]_vars

C13_Witness ==
    /\ poll_pc = "done"
    /\ Len(seen) = 3
    /\ seen[1] = Stopped
    /\ seen[2] = Pending

\* No terminal status has been observed so far.
NoTerminalSeen == \A i \in 1..Len(seen) : seen[i] \notin TerminalStatuses

\* C14 (as stated): once the loop has waited longer than the timeout without
\* observing ACTIVE or CREATE_FAILED it has failed with the timed-out error
\* and is not polling any more.
C14_TimesOutAfterTimeout ==
    \A t \in PollTimeouts :
        (PollElapsed > t /\ NoTerminalSeen /\ poll_pc # "error")
            => poll_pc = "timed_out"

\* C14 (amended): the poll loop has no overall timeout: it never fails with a
\* timed-out error; however long it has slept, as long as neither ACTIVE nor
\* CREATE_FAILED was observed and no status call raised it keeps polling, and
\* it ends only on ACTIVE or CREATE_FAILED.
C14_NeverTimesOut ==
    /\ poll_pc \in {"idle", "describe", "sleep", "done", "error"}
    /\ (NoTerminalSeen /\ poll_pc \notin {"idle", "error"})
          => poll_pc \in {"describe", "sleep"}
    /\ poll_pc = "done" => status \in TerminalStatuses

C14_Witness ==
    /\ poll_pc = "describe"
    /\ NoTerminalSeen
    /\ \A t \in PollTimeouts : PollElapsed > t

(***************************************************************************)
(* Further claims about the what-if notebook (SpecWhatIf).                 *)
(***************************************************************************)

\* The resources whose creation goes on after the create call has returned.
AsyncResources ==
    {c.res : c \in {WhatIfProgram[i] : i \in {j \in 1..Len(WhatIfProgram) :
                        /\ WhatIfProgram[j].kind = "create"
                        /\ StatusAtCreate(WhatIfProgram[j].op) # Active}}}

\* A create call for r has returned its identifier.
Created(r) ==
    \E i \in 1..Len(callLog) : callLog[i].id = r /\ callLog[i].answer = OK

\* A poll loop or util.wait on r has ended.
WaitEnded(r) ==
    \/ \E i \in 1..(cell - 1) :
          /\ i <= Len(WhatIfProgram)
          /\ WhatIfProgram[i].kind \in {"poll", "wait"}
          /\ arn[WhatIfProgram[i].var] = r
    \/ target = r /\ poll_pc \in {"done", "failed", "error"}

\* The asynchronous resources created so far on which no wait has ended.
PendingWaits == {r \in AsyncResources : Created(r) /\ ~WaitEnded(r)}

C16_WaitedBeforeReferenced ==
    \A i \in 1..Len(callLog) : \A a \in callLog[i].args : WaitEnded(a)

\* C16 (amended): a call passes the identifier of an asynchronously created
\* resource only after a wait on that resource has ended; the dataset group
\* and the datasets, whose create calls return them ready, are passed without
\* any wait on them.
C16_AsyncWaitedBeforeReferenced ==
    /\ [][callLog' # callLog =>
            \A a \in Last(callLog').args : a \in AsyncResources => WaitEnded(a)]_vars
    /\ [](\A i \in 1..Len(callLog) : \A a \in callLog[i].args :
            ~WaitEnded(a) => a \in {"dsg", "tts", "rts"})

C16_Witness ==
    /\ \E i \in 1..Len(callLog) :
          /\ callLog[i].op = "create_forecast"
          /\ callLog[i].args = {"predictor_1"}
          /\ callLog[i].answer = OK
    /\ \E i \in 1..Len(callLog) :
          /\ callLog[i].op = "update_dataset_group"
          /\ callLog[i].args = {"dsg", "tts", "rts"}
    /\ ~WaitEnded("dsg")

\* C18: once a resource has been observed in CREATE_FAILED it stays so and
\* no further create call for it is issued in the run.
C18_FailedNotRetried ==
    [][\A r \in WhatIfResources :
          observed[r] = CreateFailed =>
              /\ observed'[r] = CreateFailed
              /\ remote'[r] = CreateFailed
              /\ callLog' # callLog => Last(callLog').id # r]_vars

C18_Witness ==
    /\ observed["tts_import"] = CreateFailed
    /\ target = ""
    /\ Last(callLog).op = "create_auto_predictor"

(***************************************************************************)
(* Claims about the stop-and-resubmit notebook (SpecStop).                 *)
(***************************************************************************)

\* The state of the resource life cycle that a remote status stands for; a
\* creation that was stopped has not reached ACTIVE and counts as CREATING.
Lifecycle(s) ==
    CASE s = Gone -> "PLANNED_OR_GONE"
      [] s \in {Pending, InProgress, Stopping, Stopped} -> "CREATING"
      [] s = Active -> "ACTIVE"
      [] s = CreateFailed -> "CREATE_FAILED"
      [] s = Deleting -> "DELETING"

LifecycleSteps ==
    { <<"PLANNED_OR_GONE", "CREATING">>, <<"CREATING", "ACTIVE">>,
      <<"CREATING", "CREATE_FAILED">>, <<"ACTIVE", "DELETING">>,
      <<"DELETING", "PLANNED_OR_GONE">> }

NoLiveDependents ==
    \A d \in Dependents(CleanupDependsOn, DeleteTarget) : remote[d] = Gone

\* C19: wait_till_delete called without a timeout on a resource without live
\* dependents eventually returns, and never ends in an error or a timeout:
\* every repeated delete is answered 'accepted' or 'not found', and the
\* accepted deletion eventually makes the answer 'not found'.
C19_ReturnsWithoutTimeout ==
    /\ (wtd_pc = "loop" /\ timeout = None /\ NoLiveDependents) ~> (wtd_pc = "returned")
    /\ [][(timeout = None /\ NoLiveDependents /\ wtd_pc \in {"loop", "call", "sleep"})
             => wtd_pc' \notin {"error", "timeout"}]_vars
    /\ [][(NoLiveDependents /\ trace' # trace) => Last(trace') \in {OK, NotFound}]_vars

C19_Witness ==
    /\ wtd_pc = "returned"
    /\ timeout = None
    /\ trace = <<OK, OK, NotFound>>

\* C20: after wait_till_delete has ended with the timeout error no further
\* remote call is issued, in particular none that cancels or undoes the
\* deletion; the remote service changes only by completing deletions, and a
\* deletion it had accepted is eventually completed.
C20_TimeoutDoesNotCancel ==
    /\ [][wtd_pc = "timeout" =>
            /\ wtd_pc' = "timeout"
            /\ callLog' = callLog
            /\ \A r \in DOMAIN remote :
                  remote'[r] # remote[r] => (remote[r] = Deleting /\ remote'[r] = Gone)]_vars
    /\ (wtd_pc = "timeout" /\ remote[DeleteTarget] = Deleting)
          ~> (wtd_pc = "timeout" /\ remote[DeleteTarget] = Gone)

C20_Witness ==
    /\ wtd_pc = "timeout"
    /\ flow = "aborted"
    /\ Len(trace) >= 1
    /\ Last(trace) = OK
    /\ Last(callLog).answer = OK
    /\ remote[DeleteTarget] = Gone

(***************************************************************************)
(* Further claims about the Cleanup notebook (SpecCleanup).                *)
(***************************************************************************)

\* C21: when the Cleanup notebook has run all its cells without an error,
\* every resource it names is gone at the remote service, the export jobs
\* included: a forecast's delete is accepted only once its export job is
\* gone, and every other resource is confirmed gone by wait_till_delete.
C21_FinishedMeansAllGone ==
    flow = "finished" => \A r \in CleanupResources : remote[r] = Gone

C21_Witness ==
    /\ flow = "finished"
    /\ Len(callLog) >= Len(CleanupProgram)
    /\ \A r \in CleanupExports :
          \E i \in 1..Len(callLog) :
              callLog[i].id = r /\ callLog[i].answer = OK
    /\ remote["datasetGroupArn"] = Gone

(***************************************************************************)
(* Further claims about the what-if notebook (SpecWhatIf), continued.      *)
(***************************************************************************)

\* C22: polling is strictly sequential: a step issues at most one remote
\* call; a status call is issued only by the running poll loop, after the
\* sleep that followed its previous status call; a create or update call is
\* issued only while no poll loop is running; and the related time series
\* import job is polled only after the poll loop on the target time series
\* import job has ended.
C22_PollingSequential ==
    /\ [][(status_calls' # status_calls /\ status_calls' # 0) =>
            /\ status_calls' = status_calls + 1
            /\ poll_pc = "describe"
            /\ poll_sleeps = status_calls
            /\ callLog' = callLog]_vars
    /\ [][callLog' # callLog =>
            /\ Len(callLog') = Len(callLog) + 1
            /\ poll_pc = "idle"
            /\ status_calls' = status_calls]_vars
    /\ [](target = "rts_import1" => WaitEnded("tts_import"))
    /\ [](observed["rts_import1"] # Unobserved => WaitEnded("tts_import"))

C22_Witness ==
    /\ target = "rts_import1"
    /\ poll_pc = "done"
    /\ status_calls = 1
    /\ poll_sleeps = 0
    /\ observed["tts_import"] \in TerminalStatuses

(***************************************************************************)
(* Further claims about the stop-and-resubmit notebook (SpecStop).         *)
(***************************************************************************)

CreateOps == {"create_predictor", "create_forecast"}

\* The identifiers that the remote call recorded as c passes.
Passed(c) ==
    IF c.op \in DeleteOps THEN {c.id} ELSE c.args

\* Call i is a delete call that confirmed r gone.
ConfirmsGone(i, r) ==
    /\ callLog[i].op \in DeleteOps
    /\ callLog[i].id = r
    /\ callLog[i].answer = NotFound

\* Call k is a create call that returned the identifier r.
Creates(k, r) ==
    /\ callLog[k].op \in CreateOps
    /\ callLog[k].id = r
    /\ callLog[k].answer = OK

\* C23 (as stated): an identifier is returned by one create call only, and
\* no remote call passes an identifier after a delete call has confirmed its
\* resource gone.
C23_ForgottenAfterConfirm ==
    /\ \A r \in StopResources :
          Cardinality({k \in 1..Len(callLog) : Creates(k, r)}) <= 1
    /\ \A i \in 1..Len(callLog) : \A j \in (i + 1)..Len(callLog) :
          \A r \in StopResources : ConfirmsGone(i, r) => r \notin Passed(callLog[j])

\* C23 (amended): an identifier variable changes only by the assignment from
\* the response of a create call, and only from unset: a second create call
\* under the same name returns the same identifier. After a delete call has
\* confirmed a resource gone, a remote call passes its identifier again only
\* after a create call has returned that identifier once more.
C23_PassedAgainOnlyAfterCreate ==
    /\ [][\A v \in StopVariables :
            arn'[v] # arn[v] =>
                /\ arn[v] = Unset
                /\ callLog' # callLog
                /\ Last(callLog').op \in CreateOps
                /\ Last(callLog').id = arn'[v]
                /\ Last(callLog').answer = OK]_vars
    /\ [](\A i \in 1..Len(callLog) : \A j \in (i + 1)..Len(callLog) :
            \A r \in StopResources :
                (ConfirmsGone(i, r) /\ r \in Passed(callLog[j])) =>
                    \E k \in (i + 1)..(j - 1) : Creates(k, r))

C23_Witness ==
    \E i \in 1..Len(callLog) : \E j \in (i + 1)..Len(callLog) :
        /\ ConfirmsGone(i, "predictor_deep_ar")
        /\ callLog[j].op = "create_forecast"
        /\ "predictor_deep_ar" \in Passed(callLog[j])
        /\ callLog[j].answer = OK

\* C24: a create call under a name that was created before in the run is
\* issued only after wait_till_delete has confirmed the earlier resource of
\* that name gone, when no resource of that name exists at the service.
C24_ResubmitOnlyAfterGone ==
    [][(/\ callLog' # callLog
        /\ Last(callLog').op \in CreateOps
        /\ \E k \in 1..Len(callLog) : Creates(k, Last(callLog').id)) =>
            /\ remote[Last(callLog').id] = Gone
            /\ wtd_pc = "idle"
            /\ \E i \in 1..Len(callLog) : ConfirmsGone(i, Last(callLog').id)]_vars

C24_Witness ==
    /\ Cardinality({k \in 1..Len(callLog) : Creates(k, "forecast_deep_ar")}) = 2
    /\ Cardinality({k \in 1..Len(callLog) : Creates(k, "predictor_deep_ar")}) = 2
    /\ remote["forecast_deep_ar"] = Active

(***************************************************************************)
(* Claims about the clean-up cells of the item-metadata notebook           *)
(* (SpecMetaCleanup).                                                      *)
(***************************************************************************)

\* The delete_dataset_group calls issued so far.
GroupDeletes == {i \in 1..Len(callLog) : callLog[i].op = "delete_dataset_group"}

\* C25: every delete but delete_dataset_group is repeated until 'not found'
\* before a delete for another resource is issued; delete_dataset_group is
\* issued at most once, exactly once in a run that reaches the end, after
\* both datasets were confirmed gone, and is not confirmed itself; no
\* statement raises.
C25_ConfirmedExceptGroup ==
    /\ \A i \in 1..(Len(callLog) - 1) :
          callLog[i + 1].id # callLog[i].id => callLog[i].answer = NotFound
    /\ Cardinality(GroupDeletes) <= 1
    /\ \A i \in GroupDeletes :
          /\ i = Len(callLog)
          /\ {"ts_dataset_arn", "meta_dataset_arn"} \subseteq ConfirmedGoneBefore(i)
          /\ callLog[i].answer = OK
    /\ flow = "finished" => Cardinality(GroupDeletes) = 1
    /\ flow # "aborted" /\ wtd_pc \notin {"error", "timeout"}

C25_Witness ==
    /\ flow = "finished"
    /\ remote["dataset_group_arn"] = Deleting
    /\ Cardinality(GroupDeletes) = 1
    /\ \A r \in MetaResources \ {"dataset_group_arn"} : r \in ConfirmedGoneBefore(Len(callLog))

(***************************************************************************)
(* Further claims about wait_till_delete (SpecWait).                       *)
(***************************************************************************)

\* The smallest k with k * c >= t, for c > 0.
CeilDiv(t, c) == (t + c - 1) \div c

\* The callback invocations so far that returned normally.
Accepted == SelectSeq(trace, LAMBDA o : o = OK)

\* C26: with timeout T > 0 and check_time c > 0 the callback is invoked at
\* most ceil(T/c) times; the timeout error is raised after exactly ceil(T/c)
\* invocations and as many sleeps, when the slept time is the smallest
\* multiple of c that is >= T.
C26_CeilInvocations ==
    (wtd_pc # "idle" /\ timeout # None /\ timeout[1] > 0 /\ check_time > 0) =>
        /\ Len(trace) <= CeilDiv(timeout[1], check_time)
        /\ wtd_pc = "timeout" =>
              /\ Len(trace) = CeilDiv(timeout[1], check_time)
              /\ sleeps = CeilDiv(timeout[1], check_time)
              /\ elapsed_time = CeilDiv(timeout[1], check_time) * check_time
              /\ elapsed_time >= timeout[1]
              /\ elapsed_time - check_time < timeout[1]

C26_Witness ==
    /\ wtd_pc = "timeout"
    /\ timeout = Some(3)
    /\ check_time = 2
    /\ Len(trace) = 2
    /\ elapsed_time = 4

\* C27: with timeout <= 0 the timeout error is raised without any callback
\* invocation.
C27_NoCallWhenTimeoutNotPositive ==
    (wtd_pc # "idle" /\ timeout # None /\ timeout[1] <= 0) =>
        /\ trace = <<>>
        /\ sleeps = 0
        /\ wtd_pc \in {"loop", "timeout"}

C27_Witness ==
    /\ wtd_pc = "timeout"
    /\ timeout = Some(0)
    /\ raised = "TimeoutError"
    /\ trace = <<>>

\* C30: at every evaluation of the loop condition elapsed_time is check_time
\* times the number of callback invocations that returned normally; it
\* starts at 0, changes only by +check_time in the sleep, and not in the
\* callback.
C30_ElapsedCountsSleeps ==
    /\ [](wtd_pc = "loop" =>
            /\ elapsed_time = check_time * Len(Accepted)
            /\ Len(Accepted) = sleeps)
    /\ [][wtd_pc = "idle" /\ wtd_pc' # "idle" => elapsed_time' = 0]_vars
    /\ [][(wtd_pc # "idle" /\ elapsed_time' # elapsed_time) =>
            /\ wtd_pc = "sleep"
            /\ elapsed_time' = elapsed_time + check_time]_vars
    /\ [][trace' # trace /\ wtd_pc # "idle" => elapsed_time' = elapsed_time]_vars

C30_Witness ==
    /\ wtd_pc = "loop"
    /\ check_time = 2
    /\ Len(trace) = 3
    /\ elapsed_time = 6

(***************************************************************************)
(* Claims about wait_till_delete with a finite timeout                     *)
(* (SpecTimedWaitLive).                                                    *)
(***************************************************************************)

\* C28: wait_till_delete with a finite timeout always terminates, whatever
\* check_time is: it returns or raises after finitely many callback
\* invocations.
C28_FiniteTimeoutTerminates ==
    (wtd_pc = "loop") ~> (wtd_pc \in {"returned", "timeout", "error"})

(***************************************************************************)
(* Claims about the poll loop against the remote service                   *)
(* (SpecPollJobLive).                                                      *)
(***************************************************************************)

Polling == poll_pc \in {"describe", "sleep"}

\* C29: the poll loop ends only on a status call that returned ACTIVE or
\* CREATE_FAILED, or that raised; it ends whenever the job reaches one of
\* these two states; when the job settles in CREATE_STOPPED the loop never
\* ends normally and goes on with a status call after every sleep and a
\* sleep after every status call that does not raise.
C29_EndsIffTerminal ==
    /\ [](poll_pc = "done" => (status \in TerminalStatuses /\ remote[PolledJob] = status))
    /\ [](remote[PolledJob] \in {Stopping, Stopped} => poll_pc # "done")
    /\ (Polling /\ remote[PolledJob] \in {Pending, InProgress, Active, CreateFailed})
          ~> (poll_pc \in {"done", "error"})
    /\ (remote[PolledJob] = Stopped /\ poll_pc = "sleep") ~> (poll_pc = "describe")
    /\ (remote[PolledJob] = Stopped /\ poll_pc = "describe")
          ~> (poll_pc \in {"sleep", "error"})

C29_Witness ==
    /\ remote[PolledJob] = Stopped
    /\ poll_pc = "describe"
    /\ status_calls = MaxPolls
    /\ poll_sleeps = MaxPolls
    /\ \A i \in 1..Len(seen) : seen[i] = Stopped

====
